---------------------------- MODULE Spec2Model ----------------------------
(* Model of the weather crawler in src/cra.py (class WeatherSpider and     *)
(* main): month enumeration, the retrying page fetcher, the row parser,    *)
(* the thread-pool scheduler and the DataFrame assembly.                   *)
(*                                                                         *)
(* Text is modelled as sequences of one-character strings.  The CJK        *)
(* markers of the site are written "Y" (nian), "M" (yue), "D" (ri), "C"    *)
(* (degree sign), "_" is the non-breaking space U+00A0; weather and wind   *)
(* words are the letters "a", "b".                                         *)
EXTENDS Integers, Sequences, FiniteSets, TLC

\* ------------------------------------------------------------------------
\* Text helpers
\* ------------------------------------------------------------------------
Digits == {"0", "1", "2", "3", "4", "5", "6", "7", "8", "9"}

DigitVal == [c \in Digits |->
               CASE c = "0" -> 0 [] c = "1" -> 1 [] c = "2" -> 2 [] c = "3" -> 3
                 [] c = "4" -> 4 [] c = "5" -> 5 [] c = "6" -> 6 [] c = "7" -> 7
                 [] c = "8" -> 8 [] c = "9" -> 9]

DigitChar == [n \in 0..9 |-> CHOOSE c \in Digits : DigitVal[c] = n]

\* characters that survive decoding under a wrong candidate encoding
Ascii == Digits \cup {"-", "/", " "}

IsSpace(c) == c \in {" ", "_"}

RECURSIVE IntOf(_)
\* int() of a string of decimal digits
IntOf(s) == IF s = <<>> THEN 0
            ELSE 10 * IntOf(SubSeq(s, 1, Len(s) - 1)) + DigitVal[s[Len(s)]]

RECURSIVE DigitsOf(_)
\* decimal digits of a natural number, no padding
DigitsOf(n) == IF n < 10 THEN <<DigitChar[n]>>
               ELSE DigitsOf(n \div 10) \o <<DigitChar[n % 10]>>

\* format spec ":02d" (f-string, line 99) and "%m" / "%d" of strftime
Pad2(n) == IF n < 10 THEN <<"0">> \o DigitsOf(n) ELSE DigitsOf(n)

\* "%Y" of strftime for a four-digit year
Pad4(n) == IF n < 10 THEN <<"0", "0", "0">> \o DigitsOf(n)
           ELSE IF n < 100 THEN <<"0", "0">> \o DigitsOf(n)
           ELSE IF n < 1000 THEN <<"0">> \o DigitsOf(n)
           ELSE DigitsOf(n)

RECURSIVE LStrip(_)
LStrip(s) == IF s # <<>> /\ IsSpace(s[1]) THEN LStrip(Tail(s)) ELSE s

RECURSIVE RStrip(_)
RStrip(s) == IF s # <<>> /\ IsSpace(s[Len(s)])
             THEN RStrip(SubSeq(s, 1, Len(s) - 1)) ELSE s

\* str.strip(): U+00A0 counts as white space
Strip(s) == RStrip(LStrip(s))

\* str.replace('\xa0', ' ')
ReplaceNbsp(s) == [i \in 1..Len(s) |-> IF s[i] = "_" THEN " " ELSE s[i]]

RECURSIVE SplitSlash(_)
\* str.split('/'): always at least one part, empty parts are kept
SplitSlash(s) ==
    IF \A i \in 1..Len(s) : s[i] # "/" THEN <<s>>
    ELSE LET k == CHOOSE i \in 1..Len(s) :
                      s[i] = "/" /\ \A j \in 1..(i - 1) : s[j] # "/"
         IN  <<SubSeq(s, 1, k - 1)>> \o SplitSlash(SubSeq(s, k + 1, Len(s)))

\* number of leading digit characters of s from position i, at most cap
DigitRun(s, i, cap) ==
    IF i <= Len(s) /\ s[i] \in Digits
    THEN IF cap >= 2 /\ i + 1 <= Len(s) /\ s[i + 1] \in Digits THEN 2 ELSE 1
    ELSE 0

NoMatch == <<>>

\* one anchored try of (\d{4})Y(\d{1,2})M(\d{1,2})D at position i:
\* the three groups, or NoMatch
DateMatchAt(s, i) ==
    IF /\ i + 4 <= Len(s)
       /\ \A j \in i..(i + 3) : s[j] \in Digits
       /\ s[i + 4] = "Y"
    THEN LET a  == i + 5
             ka == DigitRun(s, a, 2)
         IN  IF ka > 0 /\ a + ka <= Len(s) /\ s[a + ka] = "M"
             THEN LET b  == a + ka + 1
                      kb == DigitRun(s, b, 2)
                  IN  IF kb > 0 /\ b + kb <= Len(s) /\ s[b + kb] = "D"
                      THEN <<SubSeq(s, i, i + 3),
                             SubSeq(s, a, a + ka - 1),
                             SubSeq(s, b, b + kb - 1)>>
                      ELSE NoMatch
             ELSE NoMatch
    ELSE NoMatch

\* re.search: the leftmost position that matches
DateSearch(s) ==
    LET hits == {i \in 1..Len(s) : DateMatchAt(s, i) # NoMatch}
    IN  IF hits = {} THEN NoMatch
        ELSE DateMatchAt(s, CHOOSE i \in hits : \A j \in hits : i <= j)

RECURSIVE FindInts(_)
\* re.findall(r'-?\d+', s) followed by int() of each item
FindInts(s) ==
    IF s = <<>> THEN <<>>
    ELSE LET neg   == s[1] = "-" /\ Len(s) >= 2 /\ s[2] \in Digits
             start == IF neg THEN 2 ELSE 1
         IN  IF s[start] \in Digits
             THEN LET stop == CHOOSE e \in start..Len(s) :
                                /\ \A j \in start..e : s[j] \in Digits
                                /\ (e = Len(s) \/ s[e + 1] \notin Digits)
                      v    == IntOf(SubSeq(s, start, stop))
                  IN  <<IF neg THEN 0 - v ELSE v>>
                          \o FindInts(SubSeq(s, stop + 1, Len(s)))
             ELSE FindInts(Tail(s))


\* ------------------------------------------------------------------------
\* Record Parser (parse_weather_data)
\* ------------------------------------------------------------------------
\* Optional[int]: None is the empty sequence, a value v is <<v>>
None == <<>>

\* a <tr>: cols are the texts of its <td> cells, a is <<text>> of the <a>
\* inside the first cell (<<>> when there is no link), hr tells whether the
\* row holds an <hr>.  get_text(strip=True) is Strip of the cell text.
GetText(t) == Strip(t)

\* lines 90-101: the date string of a row, or NoMatch when the row is skipped
RowDate(row) ==
    LET date_text  == IF row.a # <<>> THEN GetText(row.a[1])
                      ELSE GetText(row.cols[1])
        date_match == DateSearch(date_text)
    IN  IF date_match = NoMatch THEN NoMatch
        ELSE date_match[1] \o <<"-">> \o Pad2(IntOf(date_match[2]))
                           \o <<"-">> \o Pad2(IntOf(date_match[3]))

\* lines 80-87: rows without <td>, with an <hr>, or with fewer than 4 cells
RowSkipped(row) == Len(row.cols) = 0 \/ row.hr \/ Len(row.cols) < 4

\* "else 0" in place of "else None" at lines 108-109
RowRecordZeroFilled(row) ==
    LET temps         == FindInts(GetText(row.cols[3]))
        weather_parts == SplitSlash(ReplaceNbsp(GetText(row.cols[2])))
        wind_parts    == SplitSlash(ReplaceNbsp(GetText(row.cols[4])))
        day_weather   == Strip(weather_parts[1])
        day_wind      == Strip(wind_parts[1])
    IN  [date          |-> RowDate(row),
         high_temp     |-> IF Len(temps) > 0 THEN <<temps[1]>> ELSE <<0>>,
         low_temp      |-> IF Len(temps) > 1 THEN <<temps[2]>> ELSE <<0>>,
         day_weather   |-> day_weather,
         night_weather |-> IF Len(weather_parts) > 1
                           THEN Strip(weather_parts[2]) ELSE day_weather,
         day_wind      |-> day_wind,
         night_wind    |-> IF Len(wind_parts) > 1
                           THEN Strip(wind_parts[2]) ELSE day_wind]

\* lines 103-133: the record of a row whose date matched
RowRecord(row) ==
    LET temps         == FindInts(GetText(row.cols[3]))
        weather_parts == SplitSlash(ReplaceNbsp(GetText(row.cols[2])))
        wind_parts    == SplitSlash(ReplaceNbsp(GetText(row.cols[4])))
        day_weather   == Strip(weather_parts[1])
        day_wind      == Strip(wind_parts[1])
    IN  [date          |-> RowDate(row),
         high_temp     |-> IF Len(temps) > 0 THEN <<temps[1]>> ELSE None,
         low_temp      |-> IF Len(temps) > 1 THEN <<temps[2]>> ELSE None,
         day_weather   |-> day_weather,
         night_weather |-> IF Len(weather_parts) > 1
                           THEN Strip(weather_parts[2]) ELSE day_weather,
         day_wind      |-> day_wind,
         night_wind    |-> IF Len(wind_parts) > 1
                           THEN Strip(wind_parts[2]) ELSE day_wind]

RECURSIVE ParseRows(_)
\* the loop of lines 80-133 over the rows, in row order
ParseRows(rows) ==
    IF rows = <<>> THEN <<>>
    ELSE LET row == Head(rows)
         IN  IF RowSkipped(row) \/ RowDate(row) = NoMatch
             THEN ParseRows(Tail(rows))
             ELSE <<RowRecord(row)>> \o ParseRows(Tail(rows))

\* html is [table |-> BOOLEAN, trs |-> sequence of rows]; the first <tr>
\* (the header) is dropped by the slice [1:]
parse_weather_data(html) ==
    IF ~html.table THEN <<>>
    ELSE ParseRows(IF html.trs = <<>> THEN <<>> ELSE Tail(html.trs))

\* ------------------------------------------------------------------------
\* Response decoding (response.encoding = ...; response.text)
\* ------------------------------------------------------------------------
Encodings == <<"gbk", "gb18030", "utf-8">>

\* a body written in enc reads back correctly under cand
Compatible(enc, cand) == cand = enc \/ (enc = "gbk" /\ cand = "gb18030")

\* decoding with errors='replace': non-ASCII characters become junk
Garble(t) == [i \in 1..Len(t) |-> IF t[i] \in Ascii THEN t[i] ELSE "?"]

GarbleRow(row) ==
    [cols |-> [i \in 1..Len(row.cols) |-> Garble(row.cols[i])],
     a    |-> [i \in 1..Len(row.a) |-> Garble(row.a[i])],
     hr   |-> row.hr]

\* response.text of a body under the candidate encoding cand
ResponseText(body, cand) ==
    IF Compatible(body.enc, cand) THEN body.html
    ELSE [table |-> body.html.table,
          trs   |-> [i \in 1..Len(body.html.trs) |-> GarbleRow(body.html.trs[i])]]

\* ------------------------------------------------------------------------
\* Dates in the assembly (pd.to_datetime, sort key, strftime)
\* ------------------------------------------------------------------------
NaT == <<>>

IsLeap(y) == (y % 4 = 0 /\ y % 100 # 0) \/ y % 400 = 0

DaysInMonth(y, m) ==
    IF m = 2 THEN (IF IsLeap(y) THEN 29 ELSE 28)
    ELSE IF m \in {4, 6, 9, 11} THEN 30 ELSE 31

\* a parse that accepts any month and day number
to_datetimeLenient(s) ==
    IF /\ Len(s) = 10
       /\ s[5] = "-" /\ s[8] = "-"
       /\ \A i \in {1, 2, 3, 4, 6, 7, 9, 10} : s[i] \in Digits
    THEN <<IntOf(SubSeq(s, 1, 4)), IntOf(SubSeq(s, 6, 7)), IntOf(SubSeq(s, 9, 10))>>
    ELSE NaT

\* pd.to_datetime(..., errors='coerce') of one 'YYYY-MM-DD' string:
\* <<year, month, day>>, or NaT when it is not a calendar date.
\* (Years of the modelled pages lie inside the Timestamp range.)
to_datetime(s) ==
    IF /\ Len(s) = 10
       /\ s[5] = "-" /\ s[8] = "-"
       /\ \A i \in {1, 2, 3, 4, 6, 7, 9, 10} : s[i] \in Digits
    THEN LET y == IntOf(SubSeq(s, 1, 4))
             m == IntOf(SubSeq(s, 6, 7))
             d == IntOf(SubSeq(s, 9, 10))
         IN  IF m \in 1..12 /\ d \in 1..DaysInMonth(y, m)
             THEN <<y, m, d>> ELSE NaT
    ELSE NaT

\* the format '%Y-%d-%m'
strftimeDayFirst(ts) ==
    Pad4(ts[1]) \o <<"-">> \o Pad2(ts[3]) \o <<"-">> \o Pad2(ts[2])

\* .dt.strftime('%Y-%m-%d')
strftime(ts) == Pad4(ts[1]) \o <<"-">> \o Pad2(ts[2]) \o <<"-">> \o Pad2(ts[3])

\* ordering of Timestamps
DateLeq(t1, t2) ==
    \/ t1[1] < t2[1]
    \/ t1[1] = t2[1] /\ t1[2] < t2[2]
    \/ t1[1] = t2[1] /\ t1[2] = t2[2] /\ t1[3] <= t2[3]

\* ------------------------------------------------------------------------
\* The pages the site may serve
\* ------------------------------------------------------------------------
HeaderRow == [cols |-> <<>>, a |-> <<>>, hr |-> FALSE]

\* 2021Y1M1D | a/b | 5C/-2C | 3/2
RowJan1 ==
    [cols |-> << <<"2", "0", "2", "1", "Y", "1", "M", "1", "D">>,
                 <<"a", "_", "/", "b">>,
                 <<"5", "C", "/", "-", "2", "C">>,
                 <<"3", "/", "2">> >>,
     a |-> <<>>, hr |-> FALSE]

\* 2021Y1M2D, no night weather, no temperature
RowJan2 ==
    [cols |-> << <<" ", "2", "0", "2", "1", "Y", "1", "M", "2", "D", "_">>,
                 <<"a">>,
                 <<"C">>,
                 <<"3">> >>,
     a |-> <<>>, hr |-> FALSE]

\* 2021Y01M01D again, inside a link, with other field values
RowJan1Other ==
    [cols |-> << <<"a">>,
                 <<"b", "/">>,
                 <<"1", "2", "C">>,
                 <<"_", "2">>,
                 <<"b">> >>,
     a |-> << <<"2", "0", "2", "1", "Y", "0", "1", "M", "0", "1", "D">> >>,
     hr |-> FALSE]

\* month 13
RowMonth13 ==
    [cols |-> << <<"2", "0", "2", "1", "Y", "1", "3", "M", "1", "D">>,
                 <<"a", "/", "b">>, <<"7", "/", "1">>, <<"2">> >>,
     a |-> <<>>, hr |-> FALSE]

\* 30 February
RowFeb30 ==
    [cols |-> << <<"2", "0", "2", "1", "Y", "2", "M", "3", "0", "D">>,
                 <<"b">>, <<"-", "4">>, <<"2", "/", "3">> >>,
     a |-> <<>>, hr |-> FALSE]

\* the date text lacks the year
RowNoYear ==
    [cols |-> << <<"1", "M", "1", "D">>,
                 <<"a">>, <<"5", "/", "2">>, <<"3">> >>,
     a |-> <<>>, hr |-> FALSE]

RowSeparator ==
    [cols |-> << <<>> >>, a |-> <<>>, hr |-> TRUE]

RowThreeCells ==
    [cols |-> << <<"2", "0", "2", "1", "Y", "1", "M", "3", "D">>,
                 <<"a">>, <<"5">> >>,
     a |-> <<>>, hr |-> FALSE]

\* a body is [enc |-> its true encoding, html |-> the page, raises |-> the
\* candidate encodings under which decoding or parsing raises]
Bodies ==
    {[enc |-> "gbk", raises |-> {},
      html |-> [table |-> TRUE,
                trs |-> <<HeaderRow, RowJan2, RowNoYear, RowSeparator, RowJan1>>]],
     [enc |-> "gbk", raises |-> {"gbk"},
      html |-> [table |-> TRUE,
                trs |-> <<HeaderRow, RowJan2, RowNoYear, RowSeparator, RowJan1>>]],
     [enc |-> "utf-8", raises |-> {},
      html |-> [table |-> TRUE,
                trs |-> <<HeaderRow, RowMonth13, RowThreeCells, RowJan1Other>>]],
     [enc |-> "utf-8", raises |-> {},
      html |-> [table |-> TRUE, trs |-> <<HeaderRow, RowFeb30>>]],
     [enc |-> "utf-8", raises |-> {"gb18030", "utf-8"},
      html |-> [table |-> TRUE, trs |-> <<HeaderRow, RowFeb30>>]],
     [enc |-> "gbk", raises |-> {},
      html |-> [table |-> TRUE, trs |-> <<HeaderRow, RowNoYear, RowSeparator>>]],
     [enc |-> "gbk", raises |-> {}, html |-> [table |-> FALSE, trs |-> <<>>]]}

\* status codes a response may carry
StatusCodes == {200, 204, 404, 500}

\* ------------------------------------------------------------------------
\* Bounds of the model
\* ------------------------------------------------------------------------
\* the year the crawl of the full model is run in
BaseYear == 2021
\* the full crawl starts in January of BaseYear and is over by this month
MaxMonth == 2
\* records handed to the assembly step on its own
MaxRecords == 3

\* ------------------------------------------------------------------------
\* Program constants
\* ------------------------------------------------------------------------
retry_count == 3
max_workers == 3

\* ------------------------------------------------------------------------
\* State
\* ------------------------------------------------------------------------
VARIABLES
    clock,          \* <<year, month>> that datetime.now() returns
    clock_end,      \* the clock does not pass this <<year, month>> in a run
    start_year,     \* argument of crawl_weather_data
    end_year,       \* argument of crawl_weather_data
    pc,             \* position of the main thread
    current_year,   \* local of get_month_urls
    current_month,  \* local of get_month_urls
    urls,           \* list returned by get_month_urls
    futures,        \* one entry per submitted fetch_month_data call
    next_join,      \* index of the future the main thread joins next
    all_data,       \* accumulated records
    success_count,
    fail_count,
    df,             \* DataFrame returned by crawl_weather_data
    saved,          \* <<rows>> once main has written the CSV, else <<>>
    df2,            \* result of the assembly step run on df
    joined,         \* the futures whose result the main thread has taken
    log_on,         \* whether the calls record their attempts
    page,           \* html handed to parse_weather_data on its own
    records         \* what parse_weather_data returned for page

vars == <<clock, clock_end, start_year, end_year, pc, current_year,
          current_month, urls, futures, next_join, all_data, success_count,
          fail_count, df, saved, df2, joined, log_on, page, records>>

\* what only the single-function specifications use
aux == <<log_on, page, records>>

NextMonth(ym) == IF ym[2] = 12 THEN <<ym[1] + 1, 1>> ELSE <<ym[1], ym[2] + 1>>

\* (y1, m1) is strictly after (y2, m2)
After(y1, m1, y2, m2) == y1 > y2 \/ (y1 = y2 /\ m1 > m2)

\* ------------------------------------------------------------------------
\* get_month_urls
\* ------------------------------------------------------------------------
\* f"{year}{month:02d}" of the url
UrlOf(year, month) == DigitsOf(year) \o Pad2(month)

\* line 56: the month is skipped
SkipMonth(year, month, cy, cm) == year > cy \/ (year = cy /\ month > cm)

RECURSIVE MonthLoop(_, _, _, _)
\* lines 54-59 for one year, months month..12
MonthLoop(year, month, cy, cm) ==
    IF month > 12 THEN <<>>
    ELSE (IF SkipMonth(year, month, cy, cm) THEN <<>>
          ELSE <<[year |-> year, month |-> month, url |-> UrlOf(year, month)]>>)
         \o MonthLoop(year, month + 1, cy, cm)

RECURSIVE YearLoop(_, _, _, _)
\* lines 53-59, years year..last
YearLoop(year, last, cy, cm) ==
    IF year > last THEN <<>>
    ELSE MonthLoop(year, 1, cy, cm) \o YearLoop(year + 1, last, cy, cm)

\* the system clock moves on to the next month while get_month_urls, its
\* only reader, is at work
Tick ==
    /\ pc \in {"get_year", "get_month"}
    /\ clock # clock_end
    /\ clock' = NextMonth(clock)
    /\ UNCHANGED <<joined, aux>>
    /\ UNCHANGED <<clock_end, start_year, end_year, pc, current_year,
                   current_month, urls, futures, next_join, all_data,
                   success_count, fail_count, df, saved, df2>>

\* line 50: current_year = datetime.now().year
GetYear ==
    /\ pc = "get_year"
    /\ current_year' = clock[1]
    /\ pc' = "get_month"
    /\ UNCHANGED <<joined, aux>>
    /\ UNCHANGED <<clock, clock_end, start_year, end_year, current_month,
                   urls, futures, next_join, all_data, success_count,
                   fail_count, df, saved, df2>>

\* lines 51-60: current_month = datetime.now().month, then the two loops
GetMonthUrls ==
    /\ pc = "get_month"
    /\ current_month' = clock[2]
    /\ urls' = YearLoop(start_year, end_year, current_year, clock[2])
    /\ pc' = "submit"
    /\ UNCHANGED <<joined, aux>>
    /\ UNCHANGED <<clock, clock_end, start_year, end_year, current_year,
                   futures, next_join, all_data, success_count, fail_count,
                   df, saved, df2>>

\* ------------------------------------------------------------------------
\* fetch_month_data
\* ------------------------------------------------------------------------
\* lines 166-167 under candidate number k: the records, or <<>> when the
\* candidate raises (caught at line 171)
ParseUnder(body, k) ==
    IF Encodings[k] \in body.raises THEN <<>>
    ELSE parse_weather_data(ResponseText(body, Encodings[k]))

\* the loop of line 164 without the break of line 170: the last candidate
\* whose parse is not empty
WinnerLast(body, k) ==
    LET good == {j \in k..Len(Encodings) : ParseUnder(body, j) # <<>>}
    IN  IF good = {} THEN 0 ELSE CHOOSE j \in good : \A l \in good : l <= j

RECURSIVE Winner(_, _)
\* lines 164-172: the number of the first candidate, from k on, whose parse
\* is not empty (line 168); 0 when the loop runs out
Winner(body, k) ==
    IF k > Len(Encodings) THEN 0
    ELSE IF ParseUnder(body, k) # <<>> THEN k
    ELSE Winner(body, k + 1)

RECURSIVE TryEncodingsAppending(_, _)
\* the records of every candidate appended to one list
TryEncodingsAppending(body, k) ==
    IF k > Len(Encodings) THEN <<>>
    ELSE ParseUnder(body, k) \o TryEncodingsAppending(body, k + 1)

\* lines 164-175: what the call returns for a body, trying from candidate k
TryEncodings(body, k) ==
    IF Winner(body, k) = 0 THEN <<>> ELSE ParseUnder(body, Winner(body, k))

\* how many candidates the loop of line 164 goes through for a body
Tried(body) ==
    IF Winner(body, 1) = 0 THEN Len(Encodings) ELSE Winner(body, 1)

\* range(retry_count + 1): one attempt too many
LoopContinuesOffByOne(n) == n + 1 < retry_count + 1

\* the loop of line 148 goes on after a failed attempt number n (from 0)
LoopContinues(n) == n + 1 < retry_count

\* "if not response.ok" in place of line 159
StatusRejectedNon2xx(code) == code \notin 200..299

\* lines 159-161: the response is rejected
StatusRejected(code) == code # 200

\* what the attempts of a call have been so far: "none", "http500" (HTTP 500
\* each time), "net" (a request exception or a non-2xx status each time),
\* "other" (some attempt got a 2xx status or raised before the request)
FailKind(old, outcome) ==
    IF outcome = "s500" /\ old \in {"none", "http500"} THEN "http500"
    ELSE IF outcome \in {"s500", "s404", "req_exc"} /\ old \in {"none", "http500", "net"}
         THEN "net"
    ELSE "other"

\* "attempt" set back to 0 when the attempts run out, in a loop that only
\* a return ends
FailedAttemptStartsOver(f, n, outcome) ==
    [f EXCEPT !.attempt = (f.attempt + 1) % retry_count,
              !.gets = IF f.gets < retry_count THEN f.gets + n ELSE f.gets,
              !.kind = FailKind(f.kind, outcome)]

\* the attempt number kept in one attribute of the spider, which every
\* call reads and writes
FailedAttemptShared(f, n, outcome) ==
    LET shared == CHOOSE a \in {futures[j].attempt : j \in 1..Len(futures)} :
                      \A j \in 1..Len(futures) : futures[j].attempt <= a
    IN  [f EXCEPT !.attempt = shared + 1,
                  !.gets = f.gets + n,
                  !.kind = FailKind(f.kind, outcome),
                  !.st = IF LoopContinues(shared) THEN "running" ELSE "done"]

\* a failed attempt of future f that made n GET requests (0 or 1)
FailedAttempt(f, n, outcome) ==
    [f EXCEPT !.attempt = f.attempt + 1,
              !.gets = f.gets + n,
              !.kind = FailKind(f.kind, outcome),
              !.st = IF LoopContinues(f.attempt) THEN "running" ELSE "done"]

\* lines 164-175 for each modelled body: what the call returns for it
MonthDataOf == [body \in Bodies |-> TryEncodings(body, 1)]

\* lines 164-170 for each modelled body: the candidate that won and the
\* number of candidates tried
WinnerOf == [body \in Bodies |-> Winner(body, 1)]

TriedOf == [body \in Bodies |-> Tried(body)]

\* one attempt as the call saw it: what is "pre_exc" (raised before the
\* request), "req_exc" (the request raised), "rejected" (lines 159-161) or
\* "parsed" (lines 163-175); code is the status (0 without a response),
\* body is <<the body>> of a parsed response
Event(what, code, body) ==
    [what |-> what, code |-> code, body |-> body,
     winner |-> IF body = <<>> THEN 0 ELSE WinnerOf[body[1]],
     tried |-> IF body = <<>> THEN 0 ELSE TriedOf[body[1]]]

\* the attempts of a call are recorded when log_on is set
Logged(f, e) == IF log_on THEN [f EXCEPT !.log = Append(f.log, e)] ELSE f

\* line 175 replaced by a fall-through to the next attempt
AcceptedResponseRetry(f, body) ==
    IF MonthDataOf[body] # <<>>
    THEN [f EXCEPT !.gets = f.gets + 1, !.got200 = TRUE, !.kind = "other",
                   !.month_data = MonthDataOf[body], !.st = "done"]
    ELSE [FailedAttempt(f, 1, "s2xx") EXCEPT !.got200 = TRUE]

\* lines 163-175 for future f: the call returns the parse of the first
\* encoding that gives records, and returns [] when none does
AcceptedResponse(f, body) ==
    [f EXCEPT !.gets = f.gets + 1,
              !.got200 = TRUE,
              !.kind = "other",
              !.month_data = MonthDataOf[body],
              !.st = "done"]

\* number of calls a pool thread is executing
Running == Cardinality({i \in 1..Len(futures) : futures[i].st = "running"})

\* a thread for every submitted call
PoolUnbounded == TRUE

\* ThreadPoolExecutor(max_workers=3): a thread of the pool is idle
PoolHasIdleThread == Running < max_workers

\* a pool thread takes the oldest queued call
StartFetch(i) ==
    /\ i \in 1..Len(futures)
    /\ futures[i].st = "queued"
    /\ \A j \in 1..(i - 1) : futures[j].st # "queued"
    /\ PoolHasIdleThread
    /\ futures' = [futures EXCEPT ![i].st = "running"]
    /\ UNCHANGED <<joined, aux>>
    /\ UNCHANGED <<clock, clock_end, start_year, end_year, pc, current_year,
                   current_month, urls, next_join, all_data, success_count,
                   fail_count, df, saved, df2>>

\* lines 151-155 raise (sleep, get_headers): caught at line 179, no GET
AttemptRaisesEarly(i) ==
    /\ i \in 1..Len(futures)
    /\ futures[i].st = "running"
    /\ futures' = [futures EXCEPT ![i] =
           Logged(FailedAttempt(@, 0, "pre_exc"), Event("pre_exc", 0, <<>>))]
    /\ UNCHANGED <<joined, aux>>
    /\ UNCHANGED <<clock, clock_end, start_year, end_year, pc, current_year,
                   current_month, urls, next_join, all_data, success_count,
                   fail_count, df, saved, df2>>

\* line 156 raises a RequestException: caught at line 177
AttemptRequestError(i) ==
    /\ i \in 1..Len(futures)
    /\ futures[i].st = "running"
    /\ futures' = [futures EXCEPT ![i] =
           Logged(FailedAttempt(@, 1, "req_exc"), Event("req_exc", 0, <<>>))]
    /\ UNCHANGED <<joined, aux>>
    /\ UNCHANGED <<clock, clock_end, start_year, end_year, pc, current_year,
                   current_month, urls, next_join, all_data, success_count,
                   fail_count, df, saved, df2>>

\* lines 156-161: a response whose status is rejected
AttemptBadStatus(i) ==
    /\ i \in 1..Len(futures)
    /\ futures[i].st = "running"
    /\ \E code \in StatusCodes :
         /\ StatusRejected(code)
         /\ futures' = [futures EXCEPT ![i] =
                Logged(FailedAttempt(@, 1, IF code = 500 THEN "s500"
                                           ELSE IF code = 404 THEN "s404" ELSE "s2xx"),
                       Event("rejected", code, <<>>))]
    /\ UNCHANGED <<joined, aux>>
    /\ UNCHANGED <<clock, clock_end, start_year, end_year, pc, current_year,
                   current_month, urls, next_join, all_data, success_count,
                   fail_count, df, saved, df2>>

\* lines 156-175: an accepted response; the call returns whatever the
\* encodings give, empty or not
AttemptResponse(i) ==
    /\ i \in 1..Len(futures)
    /\ futures[i].st = "running"
    /\ \E code \in StatusCodes, body \in Bodies :
         /\ ~StatusRejected(code)
         /\ futures' = [futures EXCEPT ![i] =
                Logged(AcceptedResponse(@, body), Event("parsed", code, <<body>>))]
    /\ UNCHANGED <<joined, aux>>
    /\ UNCHANGED <<clock, clock_end, start_year, end_year, pc, current_year,
                   current_month, urls, next_join, all_data, success_count,
                   fail_count, df, saved, df2>>

\* ------------------------------------------------------------------------
\* crawl_weather_data: submit and join
\* ------------------------------------------------------------------------
\* line 208: executor.submit of the next target
NewFuture(t) ==
    [year |-> t.year, month |-> t.month, url |-> t.url, st |-> "queued",
     attempt |-> 0, gets |-> 0, kind |-> "none", got200 |-> FALSE,
     month_data |-> <<>>, log |-> <<>>]

Submit ==
    /\ pc = "submit"
    /\ Len(futures) < Len(urls)
    /\ futures' = Append(futures, NewFuture(urls[Len(futures) + 1]))
    /\ UNCHANGED <<joined, aux>>
    /\ UNCHANGED <<clock, clock_end, start_year, end_year, pc, current_year,
                   current_month, urls, next_join, all_data, success_count,
                   fail_count, df, saved, df2>>

\* the loop of line 207 is over
SubmitDone ==
    /\ pc = "submit"
    /\ Len(futures) = Len(urls)
    /\ pc' = "join"
    /\ UNCHANGED <<joined, aux>>
    /\ UNCHANGED <<clock, clock_end, start_year, end_year, current_year,
                   current_month, urls, futures, next_join, all_data,
                   success_count, fail_count, df, saved, df2>>

\* a result() that does not block
ResolvedNoWait(f) == TRUE

\* future.result() returns: the call has finished
Resolved(f) == f.st = "done"

\* "if month_data is not None": an empty list passes
TruthyNotNone(month_data) == TRUE

\* line 212: if month_data
Truthy(month_data) == month_data # <<>>

\* "for future in as_completed(futures)": any finished call not yet taken
JoinCandidatesAsCompleted == {i \in 1..Len(futures) : i \notin joined}

\* line 210: "for future in futures" takes the futures in submission order
JoinCandidates == {i \in 1..Len(futures) : i = next_join}

\* "fail_count += 1" moved out of the else branch
FailCountEveryMonth(n, month_data) == n + 1

\* lines 215-216: fail_count after a month
FailCountAfter(n, month_data) == IF Truthy(month_data) THEN n ELSE n + 1

\* lines 210-216 for one future
Join ==
    /\ pc = "join"
    /\ \E i \in JoinCandidates :
          /\ Resolved(futures[i])
          /\ LET month_data == futures[i].month_data
             IN  /\ all_data' = IF Truthy(month_data) THEN all_data \o month_data
                                ELSE all_data
                 /\ success_count' = IF Truthy(month_data) THEN success_count + 1
                                     ELSE success_count
                 /\ fail_count' = FailCountAfter(fail_count, month_data)
          /\ joined' = joined \cup {i}
    /\ next_join' = next_join + 1
    /\ UNCHANGED <<clock, clock_end, start_year, end_year, pc, current_year,
                   current_month, urls, futures, df, saved, df2>>
    /\ UNCHANGED aux

\* the loop of line 210 is over; the with block ends (shutdown, wait=True)
JoinDone ==
    /\ pc = "join"
    /\ next_join > Len(futures)
    /\ \A i \in 1..Len(futures) : Resolved(futures[i])
    /\ pc' = "assemble"
    /\ UNCHANGED <<joined, aux>>
    /\ UNCHANGED <<clock, clock_end, start_year, end_year, current_year,
                   current_month, urls, futures, next_join, all_data,
                   success_count, fail_count, df, saved, df2>>

\* ------------------------------------------------------------------------
\* crawl_weather_data: the assembly (lines 220-230)
\* ------------------------------------------------------------------------
\* line 225: the date column as Timestamps
DateColumn(data) == [i \in 1..Len(data) |-> to_datetime(data[i].date)]

\* dropna followed by drop_duplicates(subset=date)
KeptRowsFirstOfDate(ts) ==
    {i \in 1..Len(ts) : ts[i] # NaT /\ \A j \in 1..(i - 1) : ts[j] # ts[i]}

\* line 226: the positions dropna keeps
KeptRows(ts) == {i \in 1..Len(ts) : ts[i] # NaT}

RECURSIVE InIndexOrder(_)
\* the positions S in ascending order
InIndexOrder(S) ==
    IF S = {} THEN <<>>
    ELSE LET i == CHOOSE j \in S : \A k \in S : j <= k
         IN  <<i>> \o InIndexOrder(S \ {i})

\* the sort left out: the rows stay in accumulation order
SortOrdersUnsorted(ts, S) == {InIndexOrder(S)}

RECURSIVE SortOrders(_, _)
\* line 227: sort_values with the default kind, quicksort, which is not
\* stable: every order of the positions S that is ascending by date
SortOrders(ts, S) ==
    IF S = {} THEN {<<>>}
    ELSE UNION {{<<i>> \o rest : rest \in SortOrders(ts, S \ {i})} :
                  i \in {j \in S : \A k \in S : DateLeq(ts[j], ts[k])}}

\* line 228: the row at position i with its date formatted
FormattedRow(data, ts, i) == [data[i] EXCEPT !.date = strftime(ts[i])]

\* lines 224-228: the frames the assembly of data may give
Assemblies(data) ==
    LET ts == DateColumn(data)
    IN  {[k \in 1..Len(order) |-> FormattedRow(data, ts, order[k])] :
            order \in SortOrders(ts, KeptRows(ts))}

\* lines 220-230
Assemble ==
    /\ pc = "assemble"
    /\ IF all_data = <<>> THEN df' = <<>>
       ELSE df' \in Assemblies(all_data)
    /\ pc' = "main"
    /\ UNCHANGED <<joined, aux>>
    /\ UNCHANGED <<clock, clock_end, start_year, end_year, current_year,
                   current_month, urls, futures, next_join, all_data,
                   success_count, fail_count, saved, df2>>

\* ------------------------------------------------------------------------
\* main (lines 257-268)
\* ------------------------------------------------------------------------
\* a frame of one row taken for empty
EmptyOrSingle(frame) == Len(frame) <= 1

\* weather_data.empty
Empty(frame) == Len(frame) = 0

MainEmpty ==
    /\ pc = "main"
    /\ Empty(df)
    /\ pc' = "terminated"
    /\ UNCHANGED <<joined, aux>>
    /\ UNCHANGED <<clock, clock_end, start_year, end_year, current_year,
                   current_month, urls, futures, next_join, all_data,
                   success_count, fail_count, df, saved, df2>>

MainSave ==
    /\ pc = "main"
    /\ ~Empty(df)
    /\ saved' = <<df>>
    /\ pc' = "saved"
    /\ UNCHANGED <<joined, aux>>
    /\ UNCHANGED <<clock, clock_end, start_year, end_year, current_year,
                   current_month, urls, futures, next_join, all_data,
                   success_count, fail_count, df, df2>>

\* the assembly step applied to the frame it produced
Reassemble ==
    /\ pc = "saved"
    /\ df2' \in Assemblies(df)
    /\ pc' = "reassembled"
    /\ UNCHANGED <<joined, aux>>
    /\ UNCHANGED <<clock, clock_end, start_year, end_year, current_year,
                   current_month, urls, futures, next_join, all_data,
                   success_count, fail_count, df, saved>>

\* ------------------------------------------------------------------------
\* Specifications
\* ------------------------------------------------------------------------
InitLocals ==
    /\ current_year = 0
    /\ current_month = 0
    /\ urls = <<>>
    /\ futures = <<>>
    /\ next_join = 1
    /\ all_data = <<>>
    /\ success_count = 0
    /\ fail_count = 0
    /\ df = <<>>
    /\ saved = <<>>
    /\ df2 = <<>>
    /\ joined = {}
    /\ page = [table |-> FALSE, trs |-> <<>>]
    /\ records = <<>>

\* a crawl that starts in January of BaseYear, for a year range that ends
\* in the year after (whose months are all in the future)
Init ==
    /\ clock = <<BaseYear, 1>>
    /\ clock_end \in {<<BaseYear, m>> : m \in 1..MaxMonth}
    /\ start_year \in {BaseYear, BaseYear + 1}
    /\ end_year = BaseYear + 1
    /\ pc = "get_year"
    /\ log_on = FALSE
    /\ InitLocals

Fetch ==
    \E i \in 1..Len(futures) :
        \/ StartFetch(i)
        \/ AttemptRaisesEarly(i)
        \/ AttemptRequestError(i)
        \/ AttemptBadStatus(i)
        \/ AttemptResponse(i)

Next ==
    \/ Tick
    \/ GetYear
    \/ GetMonthUrls
    \/ Submit
    \/ SubmitDone
    \/ Fetch
    \/ Join
    \/ JoinDone
    \/ Assemble
    \/ MainEmpty
    \/ MainSave

Spec == Init /\ [][Next]_vars

\* get_month_urls alone, for any year range and any moment
InitUrls ==
    /\ clock \in (BaseYear - 1 .. BaseYear + 1) \X (1..12)
    /\ clock_end \in {clock, NextMonth(clock)}
    /\ start_year \in BaseYear - 1 .. BaseYear + 1
    /\ end_year \in BaseYear - 1 .. BaseYear + 1
    /\ pc = "get_year"
    /\ log_on = FALSE
    /\ InitLocals

NextUrls == Tick \/ GetYear \/ GetMonthUrls

SpecUrls == InitUrls /\ [][NextUrls]_vars

\* the records parse_weather_data can give for the modelled pages
PageRecords ==
    UNION {{parse_weather_data(ResponseText(b, Encodings[k]))[i] :
              i \in 1..Len(parse_weather_data(ResponseText(b, Encodings[k])))} :
           b \in Bodies, k \in 1..Len(Encodings)}

\* the assembly alone, on any collection of up to MaxRecords records
InitAsm ==
    /\ clock = <<BaseYear, 1>>
    /\ clock_end = clock
    /\ start_year = BaseYear
    /\ end_year = BaseYear
    /\ pc = "assemble"
    /\ current_year = 0
    /\ current_month = 0
    /\ urls = <<>>
    /\ futures = <<>>
    /\ next_join = 1
    /\ all_data \in UNION {[1..n -> PageRecords] : n \in 0..MaxRecords}
    /\ success_count = 0
    /\ fail_count = 0
    /\ df = <<>>
    /\ saved = <<>>
    /\ df2 = <<>>
    /\ joined = {}
    /\ log_on = FALSE
    /\ page = [table |-> FALSE, trs |-> <<>>]
    /\ records = <<>>

NextAsm == Assemble \/ MainEmpty \/ MainSave \/ Reassemble

SpecAsm == InitAsm /\ [][NextAsm]_vars

\* number of targets of the crawl that exercises the pool
PoolMonths == 4

\* a crawl of the first PoolMonths months of BaseYear, started in the last
\* of them, with the network down: every request raises
InitPool ==
    /\ clock = <<BaseYear, PoolMonths>>
    /\ clock_end = clock
    /\ start_year = BaseYear
    /\ end_year = BaseYear
    /\ pc = "get_year"
    /\ log_on = FALSE
    /\ InitLocals

FetchPool ==
    \E i \in 1..Len(futures) : StartFetch(i) \/ AttemptRequestError(i)

NextPool ==
    \/ GetYear
    \/ GetMonthUrls
    \/ Submit
    \/ SubmitDone
    \/ FetchPool
    \/ Join
    \/ JoinDone

SpecPool == InitPool /\ [][NextPool]_vars

\* a crawl of one month, January of BaseYear, whose call records its attempts
InitFetch ==
    /\ clock = <<BaseYear, 1>>
    /\ clock_end = clock
    /\ start_year = BaseYear
    /\ end_year = BaseYear
    /\ pc = "get_year"
    /\ log_on = TRUE
    /\ InitLocals

NextFetch ==
    \/ GetYear
    \/ GetMonthUrls
    \/ Submit
    \/ SubmitDone
    \/ Fetch
    \/ Join
    \/ JoinDone
    \/ Assemble
    \/ MainEmpty
    \/ MainSave

SpecFetch == InitFetch /\ [][NextFetch]_vars

\* longest cell text handed to the parser on its own
MaxCellLen == 3

\* letters, the separator, a blank, U+00A0, a digit and the minus sign
CellChars == {"a", "/", " ", "_", "1", "-"}

CellTexts == UNION {[1..n -> CellChars] : n \in 0..MaxCellLen}

\* the row of 1 January with the text of cell number col replaced by t
RowWith(col, t) == [RowJan1 EXCEPT !.cols[col] = t]

\* parse_weather_data alone, on a page of one row whose weather, temperature
\* or wind cell holds any text of up to MaxCellLen characters
InitParse ==
    /\ clock = <<BaseYear, 1>>
    /\ clock_end = clock
    /\ start_year = BaseYear
    /\ end_year = BaseYear
    /\ pc = "parse"
    /\ log_on = FALSE
    /\ current_year = 0
    /\ current_month = 0
    /\ urls = <<>>
    /\ futures = <<>>
    /\ next_join = 1
    /\ all_data = <<>>
    /\ success_count = 0
    /\ fail_count = 0
    /\ df = <<>>
    /\ saved = <<>>
    /\ df2 = <<>>
    /\ joined = {}
    /\ \E col \in 2..4, t \in CellTexts :
          page = [table |-> TRUE, trs |-> <<HeaderRow, RowWith(col, t)>>]
    /\ records = <<>>

\* one call of parse_weather_data
ParsePage ==
    /\ pc = "parse"
    /\ records' = parse_weather_data(page)
    /\ pc' = "parsed"
    /\ UNCHANGED <<clock, clock_end, start_year, end_year, current_year,
                   current_month, urls, futures, next_join, all_data,
                   success_count, fail_count, df, saved, df2, joined, log_on,
                   page>>

NextParse == ParsePage

SpecParse == InitParse /\ [][NextParse]_vars

\* the steps of the main thread and of the pool threads
Progress ==
    \/ GetYear
    \/ GetMonthUrls
    \/ Submit
    \/ SubmitDone
    \/ Fetch
    \/ Join
    \/ JoinDone
    \/ Assemble
    \/ MainEmpty
    \/ MainSave

\* number of targets of the crawl whose termination is checked
LiveMonths == 1

\* a crawl of the first LiveMonths months of BaseYear, started in the last
\* of them
InitLive ==
    /\ clock = <<BaseYear, LiveMonths>>
    /\ clock_end = clock
    /\ start_year = BaseYear
    /\ end_year = BaseYear
    /\ pc = "get_year"
    /\ log_on = FALSE
    /\ InitLocals

\* every sleep and every request returns, and a thread that can take a step
\* takes one: the main thread and the pool go on as long as one of them can
SpecLive == InitLive /\ [][Progress]_vars /\ WF_vars(Progress)

\* ------------------------------------------------------------------------
\* Properties
\* ------------------------------------------------------------------------
\* the calls whose every attempt so far failed at network level
NetFailed == {i \in 1..Len(futures) : futures[i].kind \in {"http500", "net"}}

\* the futures the main thread has joined
Joined == 1..(next_join - 1)

\* C1: a call whose every attempt fails at network level (a request
\* exception or a non-2xx status each time) has issued one GET per attempt,
\* never more than retry_count, is finished exactly when it has issued
\* retry_count GETs, returns the empty list, and is counted as a failed month
\* once joined.
C1_RetryBound ==
    /\ \A i \in NetFailed :
          LET f == futures[i]
          IN  /\ f.gets = f.attempt
              /\ f.gets <= retry_count
              /\ (f.st = "done") <=> (f.gets = retry_count)
              /\ f.month_data = <<>>
    /\ Cardinality(NetFailed \cap Joined) <= fail_count

C1_Witness ==
    \E i \in NetFailed \cap Joined :
        /\ futures[i].kind = "net"
        /\ futures[i].st = "done"
        /\ futures[i].gets = retry_count
        /\ fail_count >= 1

\* the calls that returned [] straight after a status-200 response
EmptyAfter200(fs) ==
    {i \in 1..Len(fs) : fs[i].got200 /\ fs[i].month_data = <<>>}

\* C2 as stated: a call that got a status-200 response with no records goes
\* on to the next attempt while the budget lasts, so when it has returned
\* empty the budget is used up.
C2_EmptyParseRetried ==
    \A i \in EmptyAfter200(futures) :
        futures[i].st = "done" => futures[i].attempt + 1 = retry_count

\* C2 amended: a status-200 response that parses to zero records under every
\* encoding ends the call at once: the call is finished in the very step of
\* that response, it issues no GET afterwards whatever is left of the retry
\* budget, and joining it adds one to the failure counter and no record.
C2_EmptyParseEndsCall ==
    [][/\ \A i \in EmptyAfter200(futures') : futures'[i].st = "done"
       /\ \A i \in EmptyAfter200(futures) : futures'[i] = futures[i]
       /\ (next_join' # next_join /\ next_join \in EmptyAfter200(futures))
             => (fail_count' = fail_count + 1 /\ all_data' = all_data)]_vars

C2_Witness ==
    \E i \in EmptyAfter200(futures) \cap Joined :
        /\ futures[i].st = "done"
        /\ futures[i].attempt = 0
        /\ futures[i].gets = 1
        /\ fail_count >= 1

\* the positions of the main thread after the assembly
Assembled == {"main", "saved", "terminated", "reassembled"}

\* s is the text of a real calendar date, YYYY-MM-DD
CalendarDate(s) ==
    /\ Len(s) = 10
    /\ s[5] = "-" /\ s[8] = "-"
    /\ \A i \in {1, 2, 3, 4, 6, 7, 9, 10} : s[i] \in Digits
    /\ IntOf(SubSeq(s, 6, 7)) \in 1..12
    /\ IntOf(SubSeq(s, 9, 10)) \in
          1..DaysInMonth(IntOf(SubSeq(s, 1, 4)), IntOf(SubSeq(s, 6, 7)))

\* YYYYMMDD as a number
DateKey(s) ==
    10000 * IntOf(SubSeq(s, 1, 4)) + 100 * IntOf(SubSeq(s, 6, 7))
        + IntOf(SubSeq(s, 9, 10))

\* the rows of frame dated d
RowsDated(frame, d) == {k \in 1..Len(frame) : frame[k].date = d}

\* the positions of frame that hold row r
RowsEqual(frame, r) == {k \in 1..Len(frame) : frame[k] = r}

\* the dates that occur in frame
DatesOf(frame) == {frame[k].date : k \in 1..Len(frame)}

\* C3 as stated: every date occurs at most once in the returned Dataset.
C3_DatesUnique ==
    pc \in Assembled =>
        \A k, l \in 1..Len(df) : df[k].date = df[l].date => k = l

\* C3 amended: the returned Dataset is not deduplicated: for every date it
\* holds exactly as many rows as records with that (valid calendar) date
\* were collected, so two months that each contribute a record with the same
\* date leave two rows for that date.
C3_DuplicatesKept ==
    pc \in Assembled =>
        \A d \in DatesOf(all_data) \cup DatesOf(df) :
            Cardinality(RowsDated(df, d)) =
                IF CalendarDate(d) THEN Cardinality(RowsDated(all_data, d)) ELSE 0

C3_Witness ==
    /\ pc \in Assembled
    /\ \E i, j \in 1..Len(futures) :
          /\ i # j
          /\ \E a \in 1..Len(futures[i].month_data),
                b \in 1..Len(futures[j].month_data) :
                /\ futures[i].month_data[a].date = futures[j].month_data[b].date
                /\ Cardinality(RowsDated(df, futures[i].month_data[a].date)) = 2

RECURSIVE JoinedData(_)
\* the records of futures 1..k, in submission order
JoinedData(k) ==
    IF k = 0 THEN <<>> ELSE JoinedData(k - 1) \o futures[k].month_data

\* C5: a month whose every attempt returns HTTP 500 ends after retry_count
\* GETs with no record and counts as one failure; the accumulated records
\* are those of all joined months; the crawl reaches the assembly with every
\* enumerated month fetched and joined; and every collected record with a
\* valid calendar date is a row of the Dataset.
C5_FailedMonthDoesNotAbort ==
    /\ \A i \in 1..Len(futures) :
          (futures[i].kind = "http500" /\ futures[i].st = "done")
              => (futures[i].month_data = <<>> /\ futures[i].gets = retry_count)
    /\ next_join <= Len(futures) + 1
    /\ all_data = JoinedData(next_join - 1)
    /\ fail_count = Cardinality({i \in Joined : futures[i].month_data = <<>>})
    /\ success_count = Cardinality({i \in Joined : futures[i].month_data # <<>>})
    /\ pc \in Assembled =>
          /\ Joined = 1..Len(urls)
          /\ \A i \in 1..Len(all_data) :
                CalendarDate(all_data[i].date) => RowsEqual(df, all_data[i]) # {}

C5_Witness ==
    /\ pc \in Assembled
    /\ \E i, j \in 1..Len(futures) :
          /\ i < j
          /\ futures[i].kind = "http500" /\ futures[i].st = "done"
          /\ futures[j].month_data # <<>>
          /\ RowsEqual(df, futures[j].month_data[1]) # {}
    /\ fail_count = 1

\* C6: when the main thread is at the assembly or past it, every enumerated
\* month has been submitted and every submitted call has returned.
C6_ForkJoin ==
    pc \in Assembled \cup {"assemble"} =>
        /\ Len(futures) = Len(urls)
        /\ \A i \in 1..Len(futures) : futures[i].st = "done"

C6_Witness ==
    /\ pc = "assemble"
    /\ Len(futures) >= 2
    /\ \E i \in 1..Len(futures) : futures[i].attempt >= 1

\* C7: the rows of the returned Dataset are in ascending order of date.
C7_SortedByDate ==
    pc \in Assembled =>
        \A k \in 1..(Len(df) - 1) : DateKey(df[k].date) <= DateKey(df[k + 1].date)

C7_Witness ==
    /\ pc \in Assembled
    /\ Len(df) >= 2
    /\ \E i, j \in 1..Len(all_data) :
          /\ i < j
          /\ CalendarDate(all_data[i].date) /\ CalendarDate(all_data[j].date)
          /\ DateKey(all_data[i].date) > DateKey(all_data[j].date)

\* C8: every record the parser emits carries a date of the matched shape,
\* every row of the returned Dataset carries a real calendar date, and a
\* collected record with a real calendar date and no temperature is a row of
\* the Dataset.
C8_NoBadDateInDataset ==
    /\ \A i \in 1..Len(futures) : \A a \in 1..Len(futures[i].month_data) :
          LET s == futures[i].month_data[a].date
          IN  /\ Len(s) = 10
              /\ s[5] = "-" /\ s[8] = "-"
              /\ \A n \in {1, 2, 3, 4, 6, 7, 9, 10} : s[n] \in Digits
    /\ pc \in Assembled =>
          /\ \A k \in 1..Len(df) : CalendarDate(df[k].date)
          /\ \A i \in 1..Len(all_data) :
                (CalendarDate(all_data[i].date) /\ all_data[i].high_temp = None)
                    => RowsEqual(df, all_data[i]) # {}

C8_Witness ==
    /\ pc \in Assembled
    /\ \E i \in 1..Len(all_data) : ~CalendarDate(all_data[i].date)
    /\ \E k \in 1..Len(df) : df[k].high_temp = None /\ df[k].low_temp = None

\* C9: a crawl that collected no record returns an empty frame and main
\* stops without writing; a run is stopped only when no collected record has
\* a real calendar date; otherwise main writes the whole frame.
C9_EmptyRunTerminal ==
    /\ (pc \in Assembled /\ all_data = <<>>) => df = <<>>
    /\ all_data = <<>> => (saved = <<>> /\ pc # "saved")
    /\ pc = "terminated" =>
          (saved = <<>> /\ \A i \in 1..Len(all_data) : ~CalendarDate(all_data[i].date))
    /\ pc = "saved" => (saved = <<df>> /\ df # <<>>)

C9_Witness ==
    /\ pc = "saved"
    /\ fail_count >= 1
    /\ Len(df) = 1

\* the targets of urls for year y, month m
TargetsFor(y, m) == {k \in 1..Len(urls) : urls[k].year = y /\ urls[k].month = m}

\* C4: when get_month_urls has returned, no target is after the current
\* (year, month), every target lies in start_year..end_year and 1..12, and
\* every such pair that is not after the current (year, month) is a target
\* exactly once; no fetch is submitted for any other month.
C4_ExactEnumeration ==
    pc \notin {"get_year", "get_month"} =>
        /\ \A k \in 1..Len(urls) :
              /\ ~After(urls[k].year, urls[k].month, clock[1], clock[2])
              /\ urls[k].year \in start_year..end_year
              /\ urls[k].month \in 1..12
        /\ \A y \in start_year..end_year, m \in 1..12 :
              ~After(y, m, clock[1], clock[2]) => Cardinality(TargetsFor(y, m)) = 1
        /\ \A i \in 1..Len(futures) :
              ~After(futures[i].year, futures[i].month, clock[1], clock[2])

\* C10 as stated: the assembly applied to its own output gives the identical
\* record sequence.
C10_Idempotent == pc = "reassembled" => df2 = df

\* C10 amended: the assembly applied to its own output gives the same dates
\* in the same order and the same records with the same multiplicities; the
\* sequence is identical when no two records share a date (records of equal
\* date may change places, the sort not being stable).
C10_IdempotentUpToTies ==
    pc = "reassembled" =>
        /\ Len(df2) = Len(df)
        /\ \A k \in 1..Len(df) : df2[k].date = df[k].date
        /\ \A k \in 1..Len(df) :
              Cardinality(RowsEqual(df2, df[k])) = Cardinality(RowsEqual(df, df[k]))
        /\ (\A k, l \in 1..Len(df) : df[k].date = df[l].date => k = l) => df2 = df

C10_Witness ==
    /\ pc = "reassembled"
    /\ \E k, l \in 1..Len(df) : k # l /\ df[k].date = df[l].date /\ df[k] # df[l]
    /\ df2 # df

\* the calls a pool thread is executing
Executing == {i \in 1..Len(futures) : futures[i].st = "running"}

\* C11: however many targets are submitted, at most 3 invocations of
\* fetch_month_data execute at the same moment
C11_AtMostThreeConcurrent == Cardinality(Executing) <= 3

\* more targets than threads are submitted, 3 calls execute and another
\* one waits in the queue of the pool
C11_Witness ==
    /\ Len(futures) > 3
    /\ Cardinality(Executing) = 3
    /\ \E i \in 1..Len(futures) : futures[i].st = "queued"

RECURSIVE DataOf(_, _)
\* the records of the futures of S among 1..k, in submission order
DataOf(k, S) ==
    IF k = 0 THEN <<>>
    ELSE DataOf(k - 1, S) \o (IF k \in S THEN futures[k].month_data ELSE <<>>)

\* C12: the collected records and the two counts are a function of what each
\* call returned, taken in submission order, whatever the order in which the
\* calls completed; the Dataset is an assembly of exactly those records.
C12_CompletionOrderIrrelevant ==
    /\ all_data = DataOf(Len(futures), joined)
    /\ success_count = Cardinality({i \in joined : futures[i].month_data # <<>>})
    /\ fail_count = Cardinality({i \in joined : futures[i].month_data = <<>>})
    /\ pc \in Assembled =>
          /\ joined = 1..Len(futures)
          /\ df \in Assemblies(DataOf(Len(futures), 1..Len(futures)))

\* a later call has returned its records while an earlier one is still
\* executing and the main thread waits for the earlier one
C12_Witness ==
    /\ pc = "join"
    /\ \E i, j \in 1..Len(futures) :
          /\ i < j
          /\ i \notin joined
          /\ futures[i].st = "running"
          /\ futures[j].st = "done"
          /\ futures[j].month_data # <<>>

\* the attempts of call i that got a response
Responses(i) ==
    {k \in 1..Len(futures[i].log) : futures[i].log[k].what \in {"rejected", "parsed"}}

\* C13 as stated: every response with a 2xx status goes on to the
\* decode-and-parse step, every other response is a failed attempt.
C13_Every2xxParsed ==
    \A i \in 1..Len(futures) : \A k \in Responses(i) :
        (futures[i].log[k].code \in 200..299) <=> (futures[i].log[k].what = "parsed")

\* C13 (amended): only a response with status 200 goes on to the
\* decode-and-parse step; a response with any other status, 2xx or not, is a
\* failed attempt: it uses up one attempt of the call, which then either makes
\* its next attempt or, after retry_count attempts, returns no record.
C13_Only200Parsed ==
    \A i \in 1..Len(futures) :
        LET f == futures[i] IN
        /\ \A k \in Responses(i) : (f.log[k].code = 200) <=> (f.log[k].what = "parsed")
        /\ (f.log # <<>> /\ f.log[Len(f.log)].what = "rejected") =>
              \/ f.st = "running" /\ f.attempt = Len(f.log) /\ Len(f.log) < retry_count
              \/ f.st = "done" /\ Len(f.log) = retry_count /\ f.month_data = <<>>

\* a call got a 204 response, then a 404 response, and then a 200 response
\* whose records it returned
C13_Witness ==
    \E i \in 1..Len(futures) :
        LET f == futures[i] IN
        /\ Len(f.log) = 3
        /\ f.log[1].what = "rejected" /\ f.log[1].code = 204
        /\ f.log[2].what = "rejected" /\ f.log[2].code = 404
        /\ f.log[3].what = "parsed" /\ f.log[3].code = 200
        /\ f.st = "done" /\ f.month_data # <<>>

\* the parse of a body read under candidate encoding cand
ParseAs(body, cand) == parse_weather_data(ResponseText(body, cand))

\* the candidates under which a body gives records
GoodFor(body) ==
    {cand \in {"gbk", "gb18030", "utf-8"} :
        cand \notin body.raises /\ ParseAs(body, cand) # <<>>}

\* C14: a call holds no record until it returns; the records it returns are
\* the parse of one response, the only one of the call that was parsed, under
\* one encoding; and a month whose call returned no record adds nothing to the
\* collected records.
C14_NoPartialSuccess ==
    \A i \in 1..Len(futures) :
        LET f == futures[i] IN
        /\ f.st # "done" => f.month_data = <<>>
        /\ \A k \in 1..(Len(f.log) - 1) : f.log[k].what # "parsed"
        /\ f.month_data # <<>> =>
              /\ f.log[Len(f.log)].what = "parsed"
              /\ \E cand \in GoodFor(f.log[Len(f.log)].body[1]) :
                     f.month_data = ParseAs(f.log[Len(f.log)].body[1], cand)
        /\ (i \in joined /\ Len(futures) = 1) => all_data = f.month_data

\* after two failed attempts a call parsed a response that gives records
\* under two candidate encodings, and the main thread has taken its records
C14_Witness ==
    \E i \in joined :
        LET f == futures[i] IN
        /\ Len(f.log) = 3
        /\ f.log[3].what = "parsed"
        /\ Cardinality(GoodFor(f.log[3].body[1])) >= 2
        /\ f.month_data # <<>>
        /\ all_data = f.month_data

\* position of a candidate encoding in the order gbk, gb18030, utf-8
OrderOf(cand) == IF cand = "gbk" THEN 1 ELSE IF cand = "gb18030" THEN 2 ELSE 3

\* C17: an attempt that parses a response tries the candidates in the order
\* gbk, gb18030, utf-8; it returns the parse under the first candidate that
\* neither raises nor parses to nothing and tries none after it; when every
\* candidate raises or parses to nothing it has tried all three and returns
\* no record.
C17_FirstNonEmptyWins ==
    \A i \in 1..Len(futures) :
        LET f == futures[i] IN
        (f.log # <<>> /\ f.log[Len(f.log)].what = "parsed") =>
            LET e == f.log[Len(f.log)]
                body == e.body[1]
            IN  IF GoodFor(body) = {}
                THEN f.month_data = <<>> /\ e.winner = 0 /\ e.tried = 3
                ELSE \E cand \in GoodFor(body) :
                        /\ \A other \in GoodFor(body) : OrderOf(cand) <= OrderOf(other)
                        /\ f.month_data = ParseAs(body, cand)
                        /\ e.winner = OrderOf(cand)
                        /\ e.tried = OrderOf(cand)

\* gbk raised, gb18030 won, and utf-8 was not tried
C17_Witness ==
    \E i \in 1..Len(futures) :
        LET f == futures[i] IN
        /\ f.log # <<>>
        /\ f.log[Len(f.log)].what = "parsed"
        /\ "gbk" \in f.log[Len(f.log)].body[1].raises
        /\ f.log[Len(f.log)].winner = 2
        /\ f.log[Len(f.log)].tried = 2
        /\ f.month_data # <<>>

\* the row handed to the parser and the texts of its cells
TheRow == page.trs[2]

\* positions of the separator in a cell text
Slashes(t) == {i \in 1..Len(t) : t[i] = "/"}

\* a cell text has no night segment: there is no separator, or nothing but
\* white space between the first separator and the next one (or the end)
NightMissing(t) ==
    \/ Slashes(t) = {}
    \/ LET k == CHOOSE i \in Slashes(t) : \A j \in Slashes(t) : i <= j
       IN  \A j \in (k + 1)..Len(t) :
              (\A l \in (k + 1)..j : t[l] # "/") => t[j] \in {" ", "_"}

\* C15: a parsed row whose weather cell has no night segment, a cell ending
\* in a bare "/" included, gives a record whose night weather equals its day
\* weather; likewise night wind and day wind for the wind cell.
C15_NightMirrorsDay ==
    pc = "parsed" =>
        /\ Len(records) = 1
        /\ NightMissing(TheRow.cols[2]) =>
              records[1].night_weather = records[1].day_weather
        /\ NightMissing(TheRow.cols[4]) =>
              records[1].night_wind = records[1].day_wind

\* starts of the maximal digit runs of a cell text
IntStarts(t) == {i \in 1..Len(t) : t[i] \in Digits /\ (i = 1 \/ t[i - 1] \notin Digits)}

\* value of the only integer substring of a text that holds exactly one
OnlyInt(t) ==
    LET k == CHOOSE i \in IntStarts(t) : TRUE
        v == IntOf(SelectSeq(t, LAMBDA c : c \in Digits))
    IN  IF k > 1 /\ t[k - 1] = "-" THEN 0 - v ELSE v

\* C16: a parsed row whose temperature cell holds no integer substring gives
\* a record with neither high nor low temperature; one that holds exactly one
\* gives a record whose high temperature is that integer and whose low
\* temperature is absent; in both cases the row gives a record.
C16_MissingTemperatureAbsent ==
    pc = "parsed" =>
        LET t == TheRow.cols[3] IN
        /\ Len(records) = 1
        /\ Cardinality(IntStarts(t)) = 0 =>
              records[1].high_temp = <<>> /\ records[1].low_temp = <<>>
        /\ Cardinality(IntStarts(t)) = 1 =>
              records[1].high_temp = <<OnlyInt(t)>> /\ records[1].low_temp = <<>>

\* the temperature cell "-1" was parsed: a high of -1 and no low
C16_Witness ==
    /\ pc = "parsed"
    /\ TheRow.cols[3] = <<"-", "1">>
    /\ Len(records) = 1
    /\ records[1].high_temp = <<0 - 1>>
    /\ records[1].low_temp = <<>>

\* C20: the two counts always add up to the number of joins made, and each
\* join takes a different future; when the collecting is over every
\* enumerated target has been joined once, the counts add up to the number
\* of targets, and the succeeded targets are exactly those whose call
\* returned at least one record.
C20_Accounting ==
    /\ success_count + fail_count = next_join - 1
    /\ Cardinality(joined) = next_join - 1
    /\ pc \in Assembled \cup {"assemble"} =>
          /\ success_count + fail_count = Len(urls)
          /\ joined = 1..Len(urls)
          /\ success_count =
                Cardinality({i \in 1..Len(urls) : futures[i].month_data # <<>>})
          /\ fail_count =
                Cardinality({i \in 1..Len(urls) : futures[i].month_data = <<>>})

\* the collecting is over for two targets, one succeeded and one failed
C20_Witness ==
    /\ pc = "assemble"
    /\ Len(urls) = 2
    /\ success_count = 1
    /\ fail_count = 1

\* what the main thread accumulates
Accumulated == <<all_data, success_count, fail_count>>

\* C18: a step that changes a counter or the collected records is a step of
\* the join loop, which takes the result of one finished call, adds one to
\* exactly one counter and appends exactly the records of that call, and
\* leaves the calls alone; a step of a call changes that one call only, moves
\* its own attempt number by at most one, and changes neither a counter nor
\* the collected records.
C18_OnlyJoinAccumulates ==
    [][/\ Accumulated' # Accumulated =>
            /\ pc = "join" /\ pc' = "join"
            /\ futures' = futures
            /\ \E i \in 1..Len(futures) :
                  /\ i \notin joined
                  /\ joined' = joined \cup {i}
                  /\ futures[i].st = "done"
                  /\ all_data' = all_data \o futures[i].month_data
            /\ success_count' + fail_count' = success_count + fail_count + 1
            /\ success_count' >= success_count
            /\ fail_count' >= fail_count
       /\ (futures' # futures /\ Len(futures') = Len(futures)) =>
            /\ Accumulated' = Accumulated
            /\ joined' = joined
            /\ \E i \in 1..Len(futures) :
                  /\ \A j \in 1..Len(futures) : j # i => futures'[j] = futures[j]
                  /\ futures'[i].attempt \in {futures[i].attempt, futures[i].attempt + 1}
                  /\ futures'[i].attempt <= retry_count
      ]_vars

\* two calls are at different attempts while the main thread, which has
\* counted one finished call, waits in the join loop
C18_Witness ==
    /\ pc = "join"
    /\ success_count + fail_count = 1
    /\ \E i, j \in 1..Len(futures) :
          /\ i \in joined
          /\ j \notin joined
          /\ futures[j].st = "running"
          /\ futures[j].attempt >= 1
          /\ futures[i].attempt # futures[j].attempt

\* main has returned, every enumerated target has a call, and every call has
\* returned after no more than retry_count attempts and requests
Finished ==
    /\ pc \in {"saved", "terminated"}
    /\ Len(futures) = Len(urls)
    /\ \A i \in 1..Len(futures) :
          /\ futures[i].st = "done"
          /\ futures[i].attempt <= retry_count
          /\ futures[i].gets <= retry_count

\* C19: whatever the outcomes of the attempts, the crawl eventually finishes
\* with every target resolved, no call having made more than retry_count
\* attempts.
C19_Terminates == <>Finished

\* the crawl has finished after a call used up all its attempts, the last
\* of them on a rejected status
C19_Witness ==
    /\ Finished
    /\ \E i \in 1..Len(futures) :
          /\ futures[i].month_data = <<>>
          /\ futures[i].attempt = retry_count
          /\ futures[i].gets >= 1

=============================================================================
